---- MODULE Spec2Model ----
(***************************************************************************)
(* Session lifecycle and route guards of the portal: useSession            *)
(* (src/src/composables/useSession.js) and the navigation guards           *)
(* (src/src/middleware/auth.js).                                           *)
(*                                                                         *)
(* One step of the model is one synchronous run of JavaScript: from a call *)
(* or from the resumption of an await up to the next await or the return.  *)
(* A store operation takes effect at the step that resumes its caller.     *)
(* Time is in seconds.  A timer callback runs at its deadline: time does   *)
(* not pass a pending deadline.                                            *)
(***************************************************************************)
EXTENDS Integers, Sequences, FiniteSets, Bags, TLC

\* ---------------------------------------------------------------- bounds
MaxCalls == 2
MaxNavs == 1
MaxTime == 120

\* ------------------------------------------------------ program constants
DefaultTimeout == 900
ValidationPeriod == 60

\* ---------------------------------------------------------------- inputs
Users == {"alice", "guest"}
Creds == {"cred1"}
\* a window shorter than the validator's period, and the default one
Timeouts == {ValidationPeriod \div 2, DefaultTimeout}
Reasons == {"user_logout"}
Paths == {"/", "/auth", "/dashboard", "/security", "/profile", "/about"}
\* instants, besides the timer deadlines, at which the environment acts
ActivityInstants == {DefaultTimeout - 1}
\* the horizon of the long run: two default timeouts
LongTime == 2 * DefaultTimeout

NoUser == "null"
NoToken == [userId |-> "", username |-> "", credentialId |-> "", iat |-> -1, exp |-> -1]
NoTime == -1

\* userData.id || 'anonymous': "guest" is a user record without id
UserIdOf(u) == IF u = "alice" THEN "id-alice" ELSE "anonymous"

\* sessionUser.value?.username || 'unknown'
UsernameOrUnknown(u) == IF u = NoUser THEN "unknown" ELSE u

\* ------------------------------------------------------------ token codec
generateJWT(u, cred, t, timeout) ==
  [userId |-> UserIdOf(u), username |-> u, credentialId |-> cred,
   iat |-> t, exp |-> t + timeout]

validateJWT(tok, t) == tok # NoToken /\ tok.iat >= 0 /\ t <= tok.exp

\* ---------------------------------------------------------- session store
\* the store's operations, and the sets of them that may be failing
StoreOps == {"getValidToken", "storeToken", "clearExpiredTokens", "logEvent"}

FaultModes == {{}} \cup {{op} : op \in StoreOps}

\* faults: the operations the persistence layer fails on.  A store
\* operation never throws: a failed read degrades to "no token", a failed
\* write is dropped.
EmptySlot == [token |-> NoToken, expiresAt |-> NoTime, faults |-> {}]

Fails(slot, op) == op \in slot.faults

SlotLive(slot, t) == slot.token # NoToken /\ t <= slot.expiresAt

\* the slot once an expired token is swept out of it
Purged(slot, t) ==
  IF SlotLive(slot, t)
    THEN slot
    ELSE [slot EXCEPT !.token = NoToken, !.expiresAt = NoTime]

\* the token getValidToken resolves to
getValidToken(slot, t) ==
  IF ~Fails(slot, "getValidToken") /\ SlotLive(slot, t) THEN slot.token ELSE NoToken

\* the store after getValidToken: an expired token is purged
PurgeExpired(slot, t) ==
  IF Fails(slot, "getValidToken") THEN slot ELSE Purged(slot, t)

storeToken(slot, tok, ttl, t) ==
  IF Fails(slot, "storeToken")
    THEN slot
    ELSE [slot EXCEPT !.token = tok, !.expiresAt = t + ttl]

clearExpiredTokens(slot, t) ==
  IF Fails(slot, "clearExpiredTokens") THEN slot ELSE Purged(slot, t)

LogEntry(kind, actor) ==
  [kind |-> kind, actor |-> actor, reason |-> "", path |-> "",
   credentialId |-> "", duration |-> -1, authenticated |-> FALSE]

logEvent(slot, log, entry) ==
  IF Fails(slot, "logEvent") THEN log ELSE Append(log, entry)

\* entries one logEvent call appends
Written(slot) == IF Fails(slot, "logEvent") THEN 0 ELSE 1

\* ------------------------------------------------------------ route table
RouteType(path) ==
  CASE path = "/" -> "public"
    [] path = "/auth" -> "auth_only"
    [] path \in {"/dashboard", "/security", "/profile"} -> "protected"
    [] OTHER -> "undefined"

\* routeConfig[path] || RouteType.PUBLIC
RouteTypeOrPublic(path) ==
  IF RouteType(path) = "undefined" THEN "public" ELSE RouteType(path)

requiresAuthentication(path) == RouteTypeOrPublic(path) = "protected"

isAuthenticationRoute(path) == RouteTypeOrPublic(path) = "auth_only"

\* the comparison written as "not public"
IsProtectedLoose(path) == RouteType(path) # "public"

\* routeConfig[to.path] === RouteType.PROTECTED
IsProtectedStrict(path) == RouteType(path) = "protected"

\* to.matched.some(record => record.meta.requiresAuth)
MetaRequiresAuth(path) == RouteType(path) = "protected"

VARIABLES
  isAuthenticated, sessionUser, sessionStart, sessionTimeout,
  inactivityTimer, sessionToken,
  timeouts,            \* pending setTimeout callbacks: [id, due]
  log,                 \* the store's event log
  db,                  \* the store's token slot
  inflight,            \* bag of suspended async calls
  armed,               \* the last startInactivityTimer: [at, delay, fires, reset]
  tokenExpiredCalls,   \* endSession('token_expired') calls in this session
  sessionEndsLogged,   \* SESSION_END entries of this session
  now,
  mounted,             \* "setup", "mounted", "unmounted"
  listeners,           \* activity listeners registered
  validationInterval,  \* next tick of the periodic validator, or NoTime
  event,               \* what the last step returned or decided
  budget,              \* session calls the environment may still make
  navs,                \* navigations the router may still start
  routes,              \* the paths the router navigates to
  windows,             \* the timeouts the application configures
  horizon,             \* the instant at which the environment stops
  drain                \* the instant up to which pending timers still run out

machine == <<isAuthenticated, sessionUser, sessionStart, sessionTimeout,
             inactivityTimer, sessionToken, timeouts, log, db, inflight,
             armed, tokenExpiredCalls, sessionEndsLogged>>

vars == <<isAuthenticated, sessionUser, sessionStart, sessionTimeout,
          inactivityTimer, sessionToken, timeouts, log, db, inflight,
          armed, tokenExpiredCalls, sessionEndsLogged,
          now, mounted, listeners, validationInterval, event, budget, navs,
          routes, windows, horizon, drain>>

\* the state the session code reads and writes, as one record
M ==
  [isAuthenticated |-> isAuthenticated, sessionUser |-> sessionUser,
   sessionStart |-> sessionStart, sessionTimeout |-> sessionTimeout,
   inactivityTimer |-> inactivityTimer, sessionToken |-> sessionToken,
   timeouts |-> timeouts, log |-> log, db |-> db, inflight |-> inflight,
   armed |-> armed, tokenExpiredCalls |-> tokenExpiredCalls,
   sessionEndsLogged |-> sessionEndsLogged]

Apply(m) ==
  /\ isAuthenticated' = m.isAuthenticated
  /\ sessionUser' = m.sessionUser
  /\ sessionStart' = m.sessionStart
  /\ sessionTimeout' = m.sessionTimeout
  /\ inactivityTimer' = m.inactivityTimer
  /\ sessionToken' = m.sessionToken
  /\ timeouts' = m.timeouts
  /\ log' = m.log
  /\ db' = m.db
  /\ inflight' = m.inflight
  /\ armed' = m.armed
  /\ tokenExpiredCalls' = m.tokenExpiredCalls
  /\ sessionEndsLogged' = m.sessionEndsLogged

NoEvent == [type |-> "none"]

Suspend(m, a) == [m EXCEPT !.inflight = @ (+) SetToBag({a})]

Resume(m, a) == [m EXCEPT !.inflight = @ (-) SetToBag({a})]

Suspended == BagToSet(inflight)

\* a call from outside spends one unit of the environment's budget
Room == budget > 0 /\ now <= horizon /\ budget' = budget - 1


\* ------------------------------------------------------- session manager
\* an id setTimeout has not handed out to a pending callback
FreshTimerId(m) ==
  CHOOSE i \in 1..(Cardinality(m.timeouts) + 2) :
    /\ i # m.inactivityTimer
    /\ \A x \in m.timeouts : x.id # i
    /\ \A j \in 1..(i - 1) : j = m.inactivityTimer \/ \E x \in m.timeouts : x.id = j

\* clearTimeout(id)
clearTimeout(pending, id) == {x \in pending : x.id # id}

\* startInactivityTimer without the clearTimeout of lines 88-90
startInactivityTimerNoClear(m, t) ==
  LET id == FreshTimerId(m)
  IN [m EXCEPT !.timeouts = @ \cup {[id |-> id, due |-> t + m.sessionTimeout]},
               !.inactivityTimer = id,
               !.armed = [at |-> t, delay |-> m.sessionTimeout, fires |-> 0,
                           reset |-> FALSE]]

startInactivityTimer(m, t) ==
  LET kept == IF m.inactivityTimer # 0
                THEN clearTimeout(m.timeouts, m.inactivityTimer)
                ELSE m.timeouts
      id == FreshTimerId([m EXCEPT !.timeouts = kept])
  IN [m EXCEPT !.timeouts = kept \cup {[id |-> id, due |-> t + m.sessionTimeout]},
               !.inactivityTimer = id,
               !.armed = [at |-> t, delay |-> m.sessionTimeout, fires |-> 0,
                           reset |-> FALSE]]

resetInactivityTimer(m, t) ==
  IF m.isAuthenticated
    THEN [startInactivityTimer(m, t) EXCEPT !.armed.reset = TRUE]
    ELSE m

\* updateSessionTimeout arming a second timer beside the pending one
updateSessionTimeoutNoCancel(m, t, newTimeout) ==
  LET m1 == [m EXCEPT !.sessionTimeout = newTimeout]
  IN IF m1.isAuthenticated THEN startInactivityTimerNoClear(m1, t) ELSE m1

updateSessionTimeout(m, t, newTimeout) ==
  LET m1 == [m EXCEPT !.sessionTimeout = newTimeout]
  IN IF m1.isAuthenticated THEN startInactivityTimer(m1, t) ELSE m1

getSessionDuration(m, t) ==
  IF m.sessionStart = NoTime THEN 0 ELSE t - m.sessionStart

\* what sessionInfo and the timer show of a session state
Observable(m) ==
  [isAuthenticated |-> m.isAuthenticated, user |-> m.sessionUser,
   token |-> m.sessionToken, startTime |-> m.sessionStart,
   pending |-> m.timeouts]

\* a login begins a new session: the suspended endSession calls belong to
\* the previous one (bookkeeping of the per-session counters only)
StaleOf(a) == IF a.op = "endSession" THEN [a EXCEPT !.stale = TRUE] ELSE a

MarkStale(B) ==
  LET S == BagToSet(B)
      T == {StaleOf(a) : a \in S}
  IN [b \in T |->
        LET pre == {a \in S : StaleOf(a) = b}
        IN IF Cardinality(pre) = 1
             THEN B[CHOOSE a \in pre : TRUE]
             ELSE B[b] + B[[b EXCEPT !.stale = FALSE]]]

NewSession(m) ==
  [m EXCEPT !.tokenExpiredCalls = 0, !.sessionEndsLogged = 0,
            !.inflight = MarkStale(@)]

\* initSession, lines 19-21
InitSetFields(m, t, token) ==
  [NewSession(m) EXCEPT !.sessionToken = token,
                        !.isAuthenticated = TRUE,
                        !.sessionStart = t]

\* startSession, lines 46-49
StartSetFields(m, t, token, userData) ==
  [NewSession(m) EXCEPT !.sessionToken = token,
                        !.isAuthenticated = TRUE,
                        !.sessionUser = userData,
                        !.sessionStart = t]

ClearInactivityTimer(m) ==
  IF m.inactivityTimer # 0
    THEN [m EXCEPT !.timeouts = clearTimeout(@, m.inactivityTimer),
                   !.inactivityTimer = 0]
    ELSE m

\* endSession without line 80: the token stays
EndClearFieldsKeepToken(m) ==
  [ClearInactivityTimer(m) EXCEPT !.isAuthenticated = FALSE,
                                  !.sessionUser = NoUser,
                                  !.sessionStart = NoTime]

\* endSession without line 77: the flag stays
EndClearFieldsKeepFlag(m) ==
  [ClearInactivityTimer(m) EXCEPT !.sessionUser = NoUser,
                                  !.sessionStart = NoTime,
                                  !.sessionToken = NoToken]

\* endSession, lines 70-80
EndClearFields(m) ==
  LET m1 == ClearInactivityTimer(m)
  IN [m1 EXCEPT !.isAuthenticated = FALSE,
                !.sessionUser = NoUser,
                !.sessionStart = NoTime,
                !.sessionToken = NoToken]

\* the suspended endSession call at its first await: the log write of
\* lines 64-67 when authenticated, else the purge of line 83
EndSessionFrame(m, t, reason) ==
  IF m.isAuthenticated
    THEN [op |-> "endSession", pc |-> "logEvent", reason |-> reason,
          actor |-> UsernameOrUnknown(m.sessionUser),
          duration |-> getSessionDuration(m, t), stale |-> FALSE]
    ELSE [op |-> "endSession", pc |-> "clearExpiredTokens", reason |-> reason,
          actor |-> "", duration |-> -1, stale |-> FALSE]

\* endSession from its call to its first await
EndSessionEnter(m, t, reason) ==
  IF m.isAuthenticated
    THEN Suspend(m, EndSessionFrame(m, t, reason))
    ELSE Suspend(EndClearFields(m), EndSessionFrame(m, t, reason))

\* endSession when a failed log write surfaces at the await of line 64: the
\* call ends there
EndSessionAfterLogThrows(m, a) ==
  IF Fails(m.db, "logEvent")
    THEN Resume(m, a)
    ELSE LET entry == [LogEntry("SESSION_END", a.actor) EXCEPT
                         !.reason = a.reason, !.duration = a.duration]
             m1 == [Resume(m, a) EXCEPT
                      !.log = logEvent(m.db, @, entry),
                      !.sessionEndsLogged = IF a.stale THEN @ ELSE @ + 1]
         IN Suspend(EndClearFields(m1), [a EXCEPT !.pc = "clearExpiredTokens"])

\* endSession resumed after logEvent, up to the await of clearExpiredTokens
EndSessionAfterLog(m, a) ==
  LET entry == [LogEntry("SESSION_END", a.actor) EXCEPT
                  !.reason = a.reason, !.duration = a.duration]
      m1 == [Resume(m, a) EXCEPT
               !.log = logEvent(m.db, @, entry),
               !.sessionEndsLogged = IF a.stale THEN @ ELSE @ + Written(m.db)]
  IN Suspend(EndClearFields(m1), [a EXCEPT !.pc = "clearExpiredTokens"])

\* endSession resumed after clearExpiredTokens: it returns
EndSessionAfterPurge(m, t, a) ==
  [Resume(m, a) EXCEPT !.db = clearExpiredTokens(@, t)]

\* one endSession call run from its call to its return, nothing in between
EndSessionAlone(m, t, reason) ==
  LET a == EndSessionFrame(m, t, reason)
      m1 == EndSessionEnter(m, t, reason)
      m2 == IF a.pc = "logEvent" THEN EndSessionAfterLog(m1, a) ELSE m1
  IN EndSessionAfterPurge(m2, t, [a EXCEPT !.pc = "clearExpiredTokens"])

\* startSession from its call to the await of storeToken
StartSessionEnter(m, t, userData, credentialId) ==
  Suspend(m, [op |-> "startSession", pc |-> "storeToken", user |-> userData,
              cred |-> credentialId,
              token |-> generateJWT(userData, credentialId, t, m.sessionTimeout),
              ttl |-> m.sessionTimeout])

\* startSession resumed after storeToken, up to the await of logEvent
StartSessionAfterStore(m, t, a) ==
  LET m1 == [Resume(m, a) EXCEPT !.db = storeToken(@, a.token, a.ttl, t)]
  IN Suspend(StartSetFields(m1, t, a.token, a.user), [a EXCEPT !.pc = "logEvent"])

\* startSession resumed after logEvent: it starts the timer and returns
StartSessionAfterLog(m, t, a) ==
  LET entry == [LogEntry("SESSION_START", a.user) EXCEPT !.credentialId = a.cred]
  IN startInactivityTimer([Resume(m, a) EXCEPT !.log = logEvent(m.db, @, entry)], t)

\* initSession from its call to the await of getValidToken
InitSessionEnter(m, caller, path) ==
  Suspend(m, [op |-> "initSession", pc |-> "getValidToken", caller |-> caller,
              path |-> path, token |-> NoToken, nexts |-> 0, decision |-> "",
              authAtCall |-> m.isAuthenticated, sawValid |-> FALSE,
              wrote |-> FALSE])

InitAccepts(m, t) ==
  LET token == getValidToken(m.db, t)
  IN token # NoToken /\ validateJWT(token, t)

\* initSession resumed after getValidToken: up to the await of logEvent, or
\* to return false
InitSessionAfterGet(m, t, a) ==
  LET token == getValidToken(m.db, t)
      m1 == [Resume(m, a) EXCEPT !.db = PurgeExpired(@, t)]
  IN IF InitAccepts(m, t)
       THEN Suspend(InitSetFields(m1, t, token),
                    [a EXCEPT !.pc = "logEvent", !.token = token,
                              !.sawValid = TRUE, !.wrote = TRUE])
       ELSE m1

\* initSession resumed after logEvent: it starts the timer and returns true
InitSessionAfterLog(m, t, a) ==
  LET entry == LogEntry("SESSION_START", "system")
  IN startInactivityTimer([Resume(m, a) EXCEPT !.log = logEvent(m.db, @, entry)], t)


\* ----------------------------------------------------------- route guards
\* next(target) inside a guard; "allow" is next()
CallNext(a, target) == [a EXCEPT !.nexts = @ + 1, !.decision = target]

\* what a finished guard evaluation did
NavEvent(a, guard, unauthLogged, routeLogged) ==
  [type |-> "nav", guard |-> guard, path |-> a.path, decision |-> a.decision,
   nexts |-> a.nexts, authAtCall |-> a.authAtCall, sawValid |-> a.sawValid,
   unauthLogged |-> unauthLogged, routeLogged |-> routeLogged]

Guard(op, pc, path, m) ==
  [op |-> op, pc |-> pc, path |-> path, nexts |-> 0, decision |-> "",
   isAuth |-> FALSE, authAtCall |-> m.isAuthenticated, sawValid |-> FALSE]

\* the store holds a token that is unexpired and that validateJWT accepts
StoreHasValidToken(slot, t) == SlotLive(slot, t) /\ validateJWT(slot.token, t)

\* AuthMiddleware's beforeEach hook, lines 30-34: up to the await inside
\* checkAuthentication
BeforeEachEnter(m, path) ==
  Suspend(m, Guard("beforeEach", "getValidToken", path, m))

\* lines 36-56 without the redirect of lines 47-51
BeforeEachDecideNoRedirect(m, a, isAuth) ==
  LET b == [a EXCEPT !.isAuth = isAuth]
  IN IF requiresAuthentication(b.path) /\ ~isAuth
       THEN [m |-> Suspend(m, [b EXCEPT !.pc = "logUnauthorized"]), event |-> NoEvent]
       ELSE [m |-> Suspend(m, [b EXCEPT !.pc = "logRouteAccess"]), event |-> NoEvent]

\* lines 36-56 once checkAuthentication has returned isAuth: the redirect to
\* /dashboard is decided at once, the other two outcomes after a log write
BeforeEachDecide(m, a, isAuth) ==
  LET b == [a EXCEPT !.isAuth = isAuth]
  IN IF requiresAuthentication(b.path) /\ ~isAuth
       THEN [m |-> Suspend(m, [b EXCEPT !.pc = "logUnauthorized"]), event |-> NoEvent]
       ELSE IF isAuthenticationRoute(b.path) /\ isAuth
         THEN [m |-> m, event |-> NavEvent(CallNext(b, "/dashboard"), "beforeEach", 0, 0)]
         ELSE [m |-> Suspend(m, [b EXCEPT !.pc = "logRouteAccess"]), event |-> NoEvent]

\* checkAuthentication resumed after getValidToken, lines 81-95
BeforeEachAfterGet(m, t, a) ==
  LET token == getValidToken(m.db, t)
      b == [a EXCEPT !.sawValid = StoreHasValidToken(m.db, t)]
      m1 == [Resume(m, a) EXCEPT !.db = PurgeExpired(@, t)]
  IN IF token = NoToken
       THEN BeforeEachDecide(m1, b, FALSE)
       ELSE IF ~validateJWT(token, t)
         THEN [m |-> Suspend(m1, [b EXCEPT !.pc = "clearExpiredTokens"]), event |-> NoEvent]
         ELSE BeforeEachDecide(m1, b, TRUE)

\* checkAuthentication resumed after clearExpiredTokens: it returns false
BeforeEachAfterClear(m, t, a) ==
  BeforeEachDecide([Resume(m, a) EXCEPT !.db = clearExpiredTokens(@, t)], a, FALSE)

\* lines 38-44 resumed after the UNAUTHORIZED_ACCESS write
BeforeEachAfterUnauthorizedLog(m, a) ==
  LET entry == [LogEntry("UNAUTHORIZED_ACCESS", "system") EXCEPT !.path = a.path]
  IN [m |-> [Resume(m, a) EXCEPT !.log = logEvent(m.db, @, entry)],
      event |-> NavEvent(CallNext(a, "/auth"), "beforeEach", Written(m.db), 0)]

\* logRouteAccess, lines 103-113, and the next() of line 56
BeforeEachAfterRouteLog(m, a) ==
  LET entry == [LogEntry("ROUTE_ACCESS", IF a.isAuth THEN "authenticated" ELSE "anonymous")
                  EXCEPT !.path = a.path, !.authenticated = a.isAuth]
  IN [m |-> [Resume(m, a) EXCEPT !.log = logEvent(m.db, @, entry)],
      event |-> NavEvent(CallNext(a, "allow"), "beforeEach", 0, Written(m.db))]

\* the mixin's beforeRouteEnter and beforeRouteUpdate, lines 143-173
MixinEnter(m, hook, path) ==
  IF IsProtectedStrict(path)
    THEN [m |-> Suspend(m, Guard(hook, "getValidToken", path, m)), event |-> NoEvent]
    ELSE [m |-> m,
          event |-> NavEvent(CallNext(Guard(hook, "", path, m), "allow"), hook, 0, 0)]

\* token ? validateJWT(token) : false
TokenIsValid(token, t) == IF token # NoToken THEN validateJWT(token, t) ELSE FALSE

\* the hook without the return of line 152: next('/auth'), then next()
MixinAfterGetNoReturn(m, t, a) ==
  LET token == getValidToken(m.db, t)
      b == [a EXCEPT !.sawValid = StoreHasValidToken(m.db, t),
                     !.isAuth = TokenIsValid(token, t)]
      c == IF ~b.isAuth THEN CallNext(b, "/auth") ELSE b
  IN [m |-> [Resume(m, a) EXCEPT !.db = PurgeExpired(@, t)],
      event |-> NavEvent(CallNext(c, "allow"), a.op, 0, 0)]

MixinAfterGet(m, t, a) ==
  LET token == getValidToken(m.db, t)
      b == [a EXCEPT !.sawValid = StoreHasValidToken(m.db, t),
                     !.isAuth = TokenIsValid(token, t)]
      m1 == [Resume(m, a) EXCEPT !.db = PurgeExpired(@, t)]
  IN IF ~b.isAuth
       THEN [m |-> m1, event |-> NavEvent(CallNext(b, "/auth"), a.op, 0, 0)]
       ELSE [m |-> m1, event |-> NavEvent(CallNext(b, "allow"), a.op, 0, 0)]

\* what follows checkRouteAccess in its caller: setupNavigationGuard's
\* try/catch (lines 214-220), or the caller of the composable itself
AfterCheckRouteAccess(a, raised) ==
  IF a.op = "navigationGuard"
    THEN NavEvent(CallNext(a, IF raised THEN "/auth" ELSE "allow"), a.op, 0, 0)
    ELSE [type |-> "check", path |-> a.path, raised |-> raised,
          authAtCall |-> a.authAtCall, sawValid |-> a.sawValid]

\* checkRouteAccess, lines 180-193, called by caller
CheckRouteAccessEnter(m, caller, path) ==
  IF IsProtectedStrict(path)
    THEN [m |-> Suspend(m, Guard(caller, "getValidToken", path, m)), event |-> NoEvent]
    ELSE [m |-> m, event |-> AfterCheckRouteAccess(Guard(caller, "", path, m), FALSE)]

CheckRouteAccessAfterGet(m, t, a) ==
  LET token == getValidToken(m.db, t)
      b == [a EXCEPT !.sawValid = StoreHasValidToken(m.db, t),
                     !.isAuth = TokenIsValid(token, t)]
  IN [m |-> [Resume(m, a) EXCEPT !.db = PurgeExpired(@, t)],
      event |-> AfterCheckRouteAccess(b, ~b.isAuth)]

\* useRouteGuard's hook, lines 212-226; its session is the modelled one
RouteGuardEnter(m, path) ==
  IF MetaRequiresAuth(path) /\ ~m.isAuthenticated
    THEN [m |-> InitSessionEnter(m, "routeGuard", path), event |-> NoEvent]
    ELSE [m |-> m,
          event |-> NavEvent(CallNext(Guard("routeGuard", "", path, m), "allow"),
                             "routeGuard", 0, 0)]

\* what the return of initSession leads to in its caller
AfterInitSession(a, hasValidSession) ==
  IF a.caller = "routeGuard"
    THEN NavEvent(CallNext(a, IF hasValidSession THEN "allow" ELSE "/auth"),
                  "routeGuard", 0, 0)
    ELSE [type |-> "return", op |-> "initSession", result |-> hasValidSession,
          authAtCall |-> a.authAtCall, changed |-> a.wrote]


\* ------------------------------------------------------------------ steps
env == <<now, mounted, listeners, validationInterval, routes, windows, horizon,
         drain>>

\* what an earlier page load may have left in the store: a token issued at
\* 0 under the short window and stored one window later
LeftoverSlot ==
  storeToken(EmptySlot, generateJWT("alice", "cred1", 0, ValidationPeriod \div 2),
             ValidationPeriod \div 2, ValidationPeriod \div 2)

StartState ==
  /\ isAuthenticated = FALSE
  /\ sessionUser = NoUser
  /\ sessionStart = NoTime
  /\ sessionTimeout = DefaultTimeout
  /\ inactivityTimer = 0
  /\ sessionToken = NoToken
  /\ timeouts = {}
  /\ log = << >>
  /\ inflight = EmptyBag
  /\ armed = [at |-> NoTime, delay |-> 0, fires |-> 0, reset |-> FALSE]
  /\ tokenExpiredCalls = 0
  /\ sessionEndsLogged = 0
  /\ now = 0
  /\ mounted = "setup"
  /\ listeners = FALSE
  /\ validationInterval = NoTime
  /\ event = NoEvent

\* the session manager under a few calls, one navigation to a protected path
Init ==
  /\ StartState
  /\ db = EmptySlot
  /\ budget = MaxCalls
  /\ navs = 1
  /\ routes = {"/dashboard"}
  /\ windows = Timeouts
  /\ horizon = MaxTime
  /\ drain = 0

\* the route guards on every path, around one session call
InitNav ==
  /\ StartState
  /\ db \in {EmptySlot, LeftoverSlot}
  /\ budget = 1
  /\ navs = MaxNavs
  /\ routes = Paths
  /\ windows = Timeouts
  /\ horizon = MaxTime
  /\ drain = 0

\* the guards and one session call over a store that fails on one of its
\* operations, or on none
InitFault ==
  /\ StartState
  /\ db \in {[slot EXCEPT !.faults = f] :
               slot \in {EmptySlot, LeftoverSlot}, f \in FaultModes}
  /\ budget = 1
  /\ navs = 1
  /\ routes = {"/dashboard", "/auth"}
  /\ windows = Timeouts
  /\ horizon = MaxTime
  /\ drain = 0

\* one session call and one navigation as the page loads; the timers then run
\* out, the store answering each call before the next deadline
InitLive ==
  /\ StartState
  /\ db \in {EmptySlot, LeftoverSlot}
  /\ budget = 1
  /\ navs = 1
  /\ routes = {"/dashboard"}
  /\ windows = Timeouts
  /\ horizon = ValidationPeriod
  /\ drain = DefaultTimeout + ValidationPeriod

\* two default timeouts of one session
InitLong ==
  /\ StartState
  /\ db = EmptySlot
  /\ budget = MaxCalls
  /\ navs = 1
  /\ routes = {"/dashboard"}
  /\ windows = {DefaultTimeout, LongTime}
  /\ horizon = LongTime
  /\ drain = 0

At(a, op, pc) == a \in Suspended /\ a.op = op /\ a.pc = pc

\* a step of the program itself: a resumed call or a callback
Step(m, ev) == Apply(m) /\ event' = ev /\ UNCHANGED <<env, budget, navs>>

\* a call made by the environment
Call(m, ev) == Room /\ Apply(m) /\ event' = ev /\ UNCHANGED <<env, navs>>

\* a guard the router calls for a navigation
Navigate(path, r) ==
  /\ navs > 0
  /\ now <= horizon
  /\ path \in routes
  /\ navs' = navs - 1
  /\ Apply(r.m)
  /\ event' = r.event
  /\ UNCHANGED <<env, budget>>

StartSessionCall(userData, credentialId) ==
  Call(StartSessionEnter(M, now, userData, credentialId), NoEvent)

StartSessionStored(a) ==
  /\ At(a, "startSession", "storeToken")
  /\ Step(StartSessionAfterStore(M, now, a),
          IF Fails(db, "storeToken")
            THEN [type |-> "failed", op |-> "startSession", before |-> Observable(M)]
            ELSE NoEvent)

StartSessionReturn(a) ==
  /\ At(a, "startSession", "logEvent")
  /\ Step(StartSessionAfterLog(M, now, a),
          [type |-> "return", op |-> "startSession", user |-> a.user,
           token |-> a.token])

InitSessionCall == Call(InitSessionEnter(M, "direct", ""), NoEvent)

InitSessionGot(a) ==
  /\ At(a, "initSession", "getValidToken")
  /\ Step(InitSessionAfterGet(M, now, a),
          IF InitAccepts(M, now) THEN NoEvent ELSE AfterInitSession(a, FALSE))

InitSessionReturn(a) ==
  /\ At(a, "initSession", "logEvent")
  /\ Step(InitSessionAfterLog(M, now, a), AfterInitSession(a, TRUE))

EndSessionCall(reason) == Call(EndSessionEnter(M, now, reason), NoEvent)

EndSessionLogged(a) ==
  /\ At(a, "endSession", "logEvent")
  /\ Step(EndSessionAfterLog(M, a), NoEvent)

EndSessionReturn(a) ==
  /\ At(a, "endSession", "clearExpiredTokens")
  /\ Step(EndSessionAfterPurge(M, now, a),
          [type |-> "return", op |-> "endSession", reason |-> a.reason,
           authAtCall |-> a.actor # "",
           failed |-> Fails(db, "clearExpiredTokens")])

ResetInactivityTimerCall == Call(resetInactivityTimer(M, now), NoEvent)

\* a mousedown, mousemove, keypress, scroll or touchstart on the document
ActivityEvent ==
  /\ listeners
  /\ Call(resetInactivityTimer(M, now), NoEvent)

UpdateSessionTimeoutCall(newTimeout) ==
  /\ newTimeout # sessionTimeout
  /\ Call(updateSessionTimeout(M, now, newTimeout), NoEvent)

\* the callback without its endSession call
InactivityTimeoutNoEnd(x) ==
  /\ x \in timeouts
  /\ x.due <= now
  /\ Step([M EXCEPT !.timeouts = @ \ {x}, !.armed.fires = @ + 1], NoEvent)

\* the callback of the inactivity timer, lines 92-94
InactivityTimeout(x) ==
  /\ x \in timeouts
  /\ x.due <= now
  /\ LET m1 == [M EXCEPT !.timeouts = @ \ {x}, !.armed.fires = @ + 1]
     IN Step(EndSessionEnter(m1, now, "inactivity_timeout"),
             [type |-> "fire", at |-> now, armedAt |-> armed.at,
              delay |-> armed.delay, fires |-> armed.fires + 1,
              reset |-> armed.reset])

\* the callback of the periodic validator, lines 165-171
ValidationTick ==
  /\ validationInterval # NoTime
  /\ validationInterval <= now
  /\ validationInterval' = now + ValidationPeriod
  /\ IF isAuthenticated /\ sessionToken # NoToken /\ ~validateJWT(sessionToken, now)
       THEN Apply(EndSessionEnter([M EXCEPT !.tokenExpiredCalls = @ + 1],
                                  now, "token_expired"))
       ELSE Apply(M)
  /\ event' = NoEvent
  /\ UNCHANGED <<now, mounted, listeners, routes, windows, horizon, drain, budget, navs>>

\* onMounted, lines 176-178: the owner mounts as soon as it is set up
Mount ==
  /\ mounted = "setup"
  /\ now = 0
  /\ mounted' = "mounted"
  /\ listeners' = TRUE
  /\ validationInterval' = now + ValidationPeriod
  /\ event' = NoEvent
  /\ UNCHANGED <<machine, now, routes, windows, horizon, drain, budget, navs>>

\* onUnmounted, lines 180-187
Unmount ==
  /\ mounted = "mounted"
  /\ mounted' = "unmounted"
  /\ listeners' = FALSE
  /\ validationInterval' = NoTime
  /\ Apply(IF inactivityTimer # 0
             THEN [M EXCEPT !.timeouts = clearTimeout(@, inactivityTimer)]
             ELSE M)
  /\ event' = NoEvent
  /\ UNCHANGED <<now, routes, windows, horizon, drain, budget, navs>>

Deadlines ==
  {x.due : x \in timeouts}
    \cup (IF validationInterval # NoTime THEN {validationInterval} ELSE {})

\* the owner stays mounted for MaxTime at most
TimeLimit == IF mounted = "mounted" /\ MaxTime < horizon THEN MaxTime ELSE horizon

AdvanceTime ==
  /\ \E t \in (Deadlines \cup ActivityInstants \cup {TimeLimit}) :
       /\ now < t
       /\ \/ t <= TimeLimit
          \/ t \in Deadlines /\ t <= drain /\ inflight = EmptyBag
       /\ \A d \in Deadlines : t <= d
       /\ now' = t
  /\ event' = NoEvent
  /\ UNCHANGED <<machine, mounted, listeners, validationInterval, routes, windows,
                 horizon, drain, budget, navs>>

Take(r) == Step(r.m, r.event)

BeforeEachCall(path) ==
  Navigate(path, [m |-> BeforeEachEnter(M, path), event |-> NoEvent])

BeforeEachGot(a) ==
  /\ At(a, "beforeEach", "getValidToken")
  /\ Take(BeforeEachAfterGet(M, now, a))

BeforeEachCleared(a) ==
  /\ At(a, "beforeEach", "clearExpiredTokens")
  /\ Take(BeforeEachAfterClear(M, now, a))

BeforeEachUnauthorizedLogged(a) ==
  /\ At(a, "beforeEach", "logUnauthorized")
  /\ Take(BeforeEachAfterUnauthorizedLog(M, a))

BeforeEachRouteLogged(a) ==
  /\ At(a, "beforeEach", "logRouteAccess")
  /\ Take(BeforeEachAfterRouteLog(M, a))

Hooks == {"beforeRouteEnter", "beforeRouteUpdate"}

MixinCall(hook, path) == Navigate(path, MixinEnter(M, hook, path))

MixinGot(a) ==
  /\ a \in Suspended
  /\ a.op \in Hooks
  /\ Take(MixinAfterGet(M, now, a))

CheckRouteAccessCall(caller, path) ==
  Navigate(path, CheckRouteAccessEnter(M, caller, path))

CheckRouteAccessGot(a) ==
  /\ a \in Suspended
  /\ a.op \in {"checkRouteAccess", "navigationGuard"}
  /\ Take(CheckRouteAccessAfterGet(M, now, a))

RouteGuardCall(path) == Navigate(path, RouteGuardEnter(M, path))

Next ==
  \/ \E u \in Users, c \in Creds : StartSessionCall(u, c)
  \/ \E a \in Suspended : StartSessionStored(a)
  \/ \E a \in Suspended : StartSessionReturn(a)
  \/ InitSessionCall
  \/ \E a \in Suspended : InitSessionGot(a)
  \/ \E a \in Suspended : InitSessionReturn(a)
  \/ \E r \in Reasons : EndSessionCall(r)
  \/ \E a \in Suspended : EndSessionLogged(a)
  \/ \E a \in Suspended : EndSessionReturn(a)
  \/ ResetInactivityTimerCall
  \/ ActivityEvent
  \/ \E T \in windows : UpdateSessionTimeoutCall(T)
  \/ \E x \in timeouts : InactivityTimeout(x)
  \/ ValidationTick
  \/ Mount
  \/ Unmount
  \/ AdvanceTime
  \/ \E p \in Paths : BeforeEachCall(p)
  \/ \E a \in Suspended : BeforeEachGot(a)
  \/ \E a \in Suspended : BeforeEachCleared(a)
  \/ \E a \in Suspended : BeforeEachUnauthorizedLogged(a)
  \/ \E a \in Suspended : BeforeEachRouteLogged(a)
  \/ \E h \in Hooks, p \in Paths : MixinCall(h, p)
  \/ \E a \in Suspended : MixinGot(a)
  \/ \E c \in {"checkRouteAccess", "navigationGuard"}, p \in Paths : CheckRouteAccessCall(c, p)
  \/ \E a \in Suspended : CheckRouteAccessGot(a)
  \/ \E p \in Paths : RouteGuardCall(p)

Spec == Init /\ [][Next]_vars

SpecNav == InitNav /\ [][Next]_vars

SpecLong == InitLong /\ [][Next]_vars

SpecFault == InitFault /\ [][Next]_vars

\* a suspended call resumes once the store has answered it
Resumption ==
  \E a \in Suspended :
    \/ StartSessionStored(a)
    \/ StartSessionReturn(a)
    \/ InitSessionGot(a)
    \/ InitSessionReturn(a)
    \/ EndSessionLogged(a)
    \/ EndSessionReturn(a)
    \/ BeforeEachGot(a)
    \/ BeforeEachCleared(a)
    \/ BeforeEachUnauthorizedLogged(a)
    \/ BeforeEachRouteLogged(a)
    \/ MixinGot(a)
    \/ CheckRouteAccessGot(a)

\* a timer callback that is due runs
Callbacks == (\E x \in timeouts : InactivityTimeout(x)) \/ ValidationTick

\* the event loop runs every task that is ready, and time passes
SpecLive ==
  /\ InitLive
  /\ [][Next]_vars
  /\ WF_vars(Resumption)
  /\ WF_vars(Callbacks)
  /\ WF_vars(AdvanceTime)


\* ----------------------------------------------------------------- claims
GuardOps == {"beforeEach", "beforeRouteEnter", "beforeRouteUpdate", "navigationGuard"}

\* a suspended call that is a guard evaluation
IsGuardCall(a) ==
  a.op \in GuardOps \/ (a.op = "initSession" /\ a.caller = "routeGuard")

ClearedView ==
  [isAuthenticated |-> FALSE, user |-> NoUser, token |-> NoToken,
   startTime |-> NoTime, pending |-> {}]

EndReasons == {"user_logout", "inactivity_timeout", "token_expired"}

\* C1: a guard evaluation of a PROTECTED path that begins with the session
\* unauthenticated and finds no unexpired token that validateJWT accepts
\* redirects to /auth and appends exactly one UNAUTHORIZED_ACCESS entry.
C1_UnauthorizedRedirectLogged ==
  (/\ event.type = "nav"
   /\ event.guard \in {"beforeEach", "routeGuard"}
   /\ RouteTypeOrPublic(event.path) = "protected"
   /\ ~event.authAtCall
   /\ ~event.sawValid)
    => (event.decision = "/auth" /\ event.unauthLogged = 1)

\* C2: in every state, at every suspension point, isAuthenticated holds
\* exactly when the in-memory token is present, and a user is present only
\* when isAuthenticated holds.
C2_AuthenticatedIffToken ==
  /\ isAuthenticated <=> sessionToken # NoToken
  /\ sessionUser # NoUser => isAuthenticated

C2_Witness ==
  /\ isAuthenticated
  /\ sessionUser # NoUser
  /\ \E a \in Suspended : a.op = "endSession" /\ a.pc = "logEvent"

\* C3: when startSession(user, cred) returns, the session is authenticated
\* and its user is the user passed in, whatever ran while it was suspended.
C3_StartSessionResult ==
  (event.type = "return" /\ event.op = "startSession")
    => (isAuthenticated /\ sessionUser = event.user)

\* C4: from any reachable state, endSession run to its return and then run
\* again leaves the cleared state of the first run (not authenticated; no
\* user, token, start time or pending deadline), and the second run appends
\* nothing to the log.
C4_EndSessionTwice ==
  \A r1 \in EndReasons, r2 \in EndReasons :
    LET once == EndSessionAlone(M, now, r1)
        twice == EndSessionAlone(once, now, r2)
    IN /\ Observable(once) = ClearedView
       /\ Observable(twice) = Observable(once)
       /\ twice.log = once.log
       /\ twice.inflight = once.inflight

C4_Witness ==
  /\ event.type = "return"
  /\ event.op = "endSession"
  /\ Observable(M) = ClearedView
  /\ \E i \in 1..Len(log) : log[i].kind = "SESSION_END"

C6_TokenExpiredOnce ==
  tokenExpiredCalls >= 1 => (tokenExpiredCalls = 1 /\ sessionEndsLogged <= 1)

\* C7: initSession called on an authenticated session returns true and
\* changes neither the session fields, the deadline nor the log.
C7_InitSessionNoOp ==
  (event.type = "return" /\ event.op = "initSession" /\ event.authAtCall)
    => (event.result /\ ~event.changed)

\* C8: a guard evaluation calls next exactly once, and not while its
\* authentication check is still pending.
C8_NextExactlyOnce ==
  /\ event.type = "nav" => event.nexts = 1
  /\ \A a \in Suspended : IsGuardCall(a) => a.nexts = 0

C8_Witness ==
  /\ event.type = "nav"
  /\ event.guard \in Hooks
  /\ event.decision = "/auth"

\* C9: AuthMiddleware's guard on /auth redirects to /dashboard when the
\* store holds a valid token, and allows the navigation when it holds none.
C9_AuthRouteRedirect ==
  (event.type = "nav" /\ event.guard = "beforeEach" /\ event.path = "/auth")
    => /\ event.sawValid => event.decision = "/dashboard"
       /\ ~event.sawValid => event.decision = "allow"

C9_Witness ==
  /\ event.type = "nav"
  /\ event.guard = "beforeEach"
  /\ event.path = "/auth"
  /\ event.sawValid
  /\ event.decision = "/dashboard"

\* C10: on a path whose policy is PUBLIC ("/" or a path the table lacks),
\* AuthMiddleware's hook, the mixin hooks and checkRouteAccess allow the
\* navigation in every authentication state: no redirect, no exception.
C10_PublicAlwaysAllowed ==
  /\ (/\ event.type = "nav"
      /\ event.guard \in GuardOps
      /\ RouteTypeOrPublic(event.path) = "public")
       => event.decision = "allow"
  /\ (event.type = "check" /\ RouteTypeOrPublic(event.path) = "public")
       => ~event.raised

C10_Witness ==
  /\ event.type = "nav"
  /\ event.guard = "beforeEach"
  /\ event.path = "/about"
  /\ event.sawValid
  /\ event.decision = "allow"

\* no endSession('user_logout') has touched the session: none is logged and
\* none is suspended
NoUserLogout ==
  /\ \A i \in 1..Len(log) :
       log[i].kind = "SESSION_END" => log[i].reason # "user_logout"
  /\ \A a \in Suspended : a.op = "endSession" => a.reason # "user_logout"

\* C11: every evaluation of AuthMiddleware's before-navigation guard appends
\* a ROUTE_ACCESS entry, whether it allows or redirects.
C11_RouteAccessLogged ==
  (event.type = "nav" /\ event.guard = "beforeEach") => event.routeLogged = 1

\* C12: once endSession has returned, with the session cleared and no
\* startSession under way, the store holds no token a guard or initSession
\* would accept.
C12_NoResumableTokenAfterEnd ==
  (/\ event.type = "return"
   /\ event.op = "endSession"
   /\ Observable(M) = ClearedView
   /\ \A a \in Suspended : a.op # "startSession")
    => (~StoreHasValidToken(db, now) /\ ~InitAccepts(M, now))

\* C13: when only the inactivity timer or the validator have ended sessions,
\* a login call (startSession, or initSession returning true) returns with
\* the session authenticated and its token, its user and a pending deadline
\* set together.
C13_LoginNotClobbered ==
  (/\ event.type = "return"
   /\ event.op \in {"startSession", "initSession"}
   /\ event.op = "initSession" => event.result
   /\ NoUserLogout)
    => /\ isAuthenticated
       /\ sessionToken # NoToken
       /\ timeouts # {}
       /\ event.op = "startSession" => sessionUser = event.user

\* C14: when the inactivity timer has fired once and the validator has called
\* endSession('token_expired') once for the same session, the overlapping
\* calls log one SESSION_END entry between them.
C14_OverlappingEndsLogOnce ==
  (armed.fires = 1 /\ tokenExpiredCalls = 1 /\ NoUserLogout)
    => sessionEndsLogged <= 1

\* C17: at most one inactivity deadline is pending in any state.
C17_AtMostOneDeadline == Cardinality(timeouts) <= 1

C17_Witness ==
  /\ armed.reset
  /\ armed.at > 0
  /\ inflight = EmptyBag
  /\ Len(log) = 1
  /\ log[1].kind = "SESSION_START"
  /\ Cardinality(timeouts) = 1
  /\ \A x \in timeouts : x.due = armed.at + armed.delay

\* C18: once the owner is unmounted no inactivity deadline is pending, the
\* validator is stopped and no activity listener is registered.
C18_NothingScheduledAfterUnmount ==
  mounted = "unmounted"
    => (timeouts = {} /\ validationInterval = NoTime /\ ~listeners)

\* C19: an inactivity deadline is pending only while the session is
\* authenticated.
C19_DeadlineOnlyIfAuthenticated == timeouts # {} => isAuthenticated

\* a machine state with the store working
Healthy(m) == [m EXCEPT !.db.faults = {}]

\* two machine states that differ at most in what the log holds
SameButLog(m1, m2) ==
  [Healthy(m1) EXCEPT !.log = << >>, !.sessionEndsLogged = 0]
    = [Healthy(m2) EXCEPT !.log = << >>, !.sessionEndsLogged = 0]

\* two guard outcomes that differ at most in the entries they counted
SameDecision(r1, r2) ==
  /\ SameButLog(r1.m, r2.m)
  /\ [r1.event EXCEPT !.unauthLogged = 0, !.routeLogged = 0]
       = [r2.event EXCEPT !.unauthLogged = 0, !.routeLogged = 0]

C16_FailedStoreOpLeavesSession ==
  /\ (event.type = "failed" /\ event.op = "startSession")
       => Observable(M) = event.before
  /\ (/\ event.type = "return"
      /\ event.op = "endSession"
      /\ event.failed
      /\ event.authAtCall
      /\ inflight = EmptyBag)
       => isAuthenticated
  /\ (/\ event.type = "return"
      /\ event.op = "initSession"
      /\ Fails(db, "getValidToken"))
       => ~event.changed

\* the calls the environment may still make
CallsLeft == budget + navs

\* C20 as stated: an authenticated session on which the environment makes
\* no further call eventually ends
C20_AuthenticatedSessionEnds ==
  \A r \in 0..(MaxCalls + MaxNavs) :
    (isAuthenticated /\ CallsLeft = r) ~> (~isAuthenticated \/ CallsLeft < r)

\* C20, amended: an authenticated session on which the environment makes no
\* further call eventually ends, unless its owner has been unmounted, which
\* cancels the inactivity timer and the validator
C20_SessionEndsWhileOwnerLives ==
  \A r \in 0..(MaxCalls + MaxNavs) :
    (isAuthenticated /\ CallsLeft = r)
      ~> (~isAuthenticated \/ CallsLeft < r \/ mounted = "unmounted")

\* the inactivity timer has ended a session that nobody touched any more
C20_Witness ==
  /\ event.type = "return"
  /\ event.op = "endSession"
  /\ event.reason = "inactivity_timeout"
  /\ event.authAtCall
  /\ CallsLeft = 0
  /\ mounted = "mounted"
  /\ ~isAuthenticated
  /\ now >= DefaultTimeout

====
